---------------------------- MODULE Spec2Model ----------------------------
(***************************************************************************)
(* A model of the UserOp Hash Verifier (src/src/App.tsx): the              *)
(* UserOperation normalizer (parseValue, parseHexValue,                    *)
(* parseUserOpFromRaw, the parsedUserOp memo) and the call-data            *)
(* decode/enrich query with the oracle queries around it.                  *)
(*                                                                         *)
(* A JavaScript string is a tuple of one-character strings.  A bigint is   *)
(* a sign and a magnitude, the magnitude a little-endian tuple of limbs in *)
(* base 2^16 without a most-significant zero, so that it has no width      *)
(* limit, as in the program.                                               *)
(***************************************************************************)
EXTENDS Integers, Sequences, FiniteSets, TLC

VARIABLES
    text,                  \* the string handed to a parser (SpecParse)
    out,                   \* what the parser made of it
    inputMode,             \* "raw" | "fields"
    rawInput,              \* the raw JSON text, as the document it holds
    sender,                \* the field inputs, each a string
    nonce,
    initCode,
    callData,
    callGasLimit,
    verificationGasLimit,
    preVerificationGas,
    maxFeePerGas,
    maxPriorityFeePerGas,
    paymasterAndData,
    signature,
    chainId,               \* the selected chain
    decodeCache,           \* decodeCallData queries by key: what each holds
    decodeRuns,            \* decodeCallData query functions in flight, by key
    resolverCalls,         \* the calls made to the interface resolver
    lateResult,            \* the last query function to return had been
                           \* superseded: its key was no longer the current one
    simulateQuery,         \* simulateUserOp queries by key
    hashQuery,             \* getUserOpHash read queries by key
    formatParam,           \* the descriptor handed to formatAbiType
    formatted,             \* what formatAbiType made of it
    expectedHash           \* the expected hash input

parseVars == <<text, out>>
fieldVars == <<sender, nonce, initCode, callData, callGasLimit,
               verificationGasLimit, preVerificationGas, maxFeePerGas,
               maxPriorityFeePerGas, paymasterAndData, signature>>
inputVars == <<inputMode, rawInput, fieldVars>>

decodeVars == <<decodeCache, decodeRuns, resolverCalls, lateResult>>

oracleVars == <<simulateQuery, hashQuery>>

formatVars == <<formatParam, formatted>>

vars == <<parseVars, inputVars, chainId, decodeVars, oracleVars, formatVars,
          expectedHash>>

----------------------------------------------------------------------------
(* Bounds *)

\* Longest enumerated input string of the parser specification.
MaxLen == 4

----------------------------------------------------------------------------
(* Strings *)

WhiteSpace == {" ", "\t", "\n"}

HexLower  == <<"0", "1", "2", "3", "4", "5", "6", "7", "8", "9",
               "a", "b", "c", "d", "e", "f">>
HexUpper  == <<"0", "1", "2", "3", "4", "5", "6", "7", "8", "9",
               "A", "B", "C", "D", "E", "F">>

Range(s) == {s[i] : i \in 1..Len(s)}

HexChars == Range(HexLower) \cup Range(HexUpper)

IsHexChar(c) == c \in HexChars

HexCharValue ==
    [c \in HexChars |->
        IF c \in Range(HexLower) THEN (CHOOSE i \in 1..16 : HexLower[i] = c) - 1
        ELSE (CHOOSE i \in 1..16 : HexUpper[i] = c) - 1]

\* The value of digit c, or 99 when c is no digit in any radix.
DigitVal(c) == IF c \in HexChars THEN HexCharValue[c] ELSE 99

Front(s) == SubSeq(s, 1, Len(s) - 1)
Last(s)  == s[Len(s)]

RECURSIVE TrimLeft(_)
TrimLeft(s) ==
    IF s # <<>> /\ Head(s) \in WhiteSpace THEN TrimLeft(Tail(s)) ELSE s

RECURSIVE TrimRight(_)
TrimRight(s) ==
    IF s # <<>> /\ Last(s) \in WhiteSpace THEN TrimRight(Front(s)) ELSE s

\* String.prototype.trim
Trim(s) == TrimRight(TrimLeft(s))

StartsWith(s, p) == Len(s) >= Len(p) /\ SubSeq(s, 1, Len(p)) = p
EndsWith(s, p) ==
    Len(s) >= Len(p) /\ SubSeq(s, Len(s) - Len(p) + 1, Len(s)) = p

\* viem isHex(value), strict: /^0x[0-9a-fA-F]*$/ on a non-empty string.
IsHex(s) ==
    /\ StartsWith(s, <<"0", "x">>)
    /\ \A i \in 3..Len(s) : IsHexChar(s[i])

----------------------------------------------------------------------------
(* Bigints *)

\* The base of a magnitude's limbs.
LimbBase == 256 * 256

\* seq * m + carry, on little-endian limbs (m and carry below 2^8).
RECURSIVE MulAdd(_, _, _)
MulAdd(seq, m, carry) ==
    IF seq = <<>>
    THEN IF carry = 0 THEN <<>> ELSE <<carry>>
    ELSE LET t == Head(seq) * m + carry
         IN  <<t % LimbBase>> \o MulAdd(Tail(seq), m, t \div LimbBase)

\* The magnitude of a digit string read in the given radix, two digits at
\* a step.
RECURSIVE ParseRadix(_, _)
ParseRadix(chars, radix) ==
    LET n == Len(chars) IN
    IF n = 0 THEN <<>>
    ELSE IF n = 1 THEN MulAdd(<<>>, radix, DigitVal(chars[1]))
    ELSE MulAdd(ParseRadix(SubSeq(chars, 1, n - 2), radix), radix * radix,
                DigitVal(chars[n - 1]) * radix + DigitVal(chars[n]))

AllDigits(chars, radix) ==
    chars # <<>> /\ \A i \in 1..Len(chars) : DigitVal(chars[i]) < radix

SyntaxError == [ok |-> FALSE, err |-> "SyntaxError"]
TypeError   == [ok |-> FALSE, err |-> "TypeError"]

BigVal(neg, mag) == [ok |-> TRUE, neg |-> neg /\ mag # <<>>, mag |-> mag]

\* BigInt(string): StringToBigInt.  White space is trimmed; the empty string
\* is 0n; a literal is a signed decimal integer or an unsigned 0x, 0o or 0b
\* integer; anything else throws a SyntaxError.
BigIntOfString(s) ==
    LET t == Trim(s) IN
    IF t = <<>> THEN BigVal(FALSE, <<>>)
    ELSE IF Len(t) >= 2 /\ t[1] = "0" /\ t[2] \in {"x", "X"}
         THEN IF AllDigits(SubSeq(t, 3, Len(t)), 16)
              THEN BigVal(FALSE, ParseRadix(SubSeq(t, 3, Len(t)), 16))
              ELSE SyntaxError
    ELSE IF Len(t) >= 2 /\ t[1] = "0" /\ t[2] \in {"o", "O"}
         THEN IF AllDigits(SubSeq(t, 3, Len(t)), 8)
              THEN BigVal(FALSE, ParseRadix(SubSeq(t, 3, Len(t)), 8))
              ELSE SyntaxError
    ELSE IF Len(t) >= 2 /\ t[1] = "0" /\ t[2] \in {"b", "B"}
         THEN IF AllDigits(SubSeq(t, 3, Len(t)), 2)
              THEN BigVal(FALSE, ParseRadix(SubSeq(t, 3, Len(t)), 2))
              ELSE SyntaxError
    ELSE IF t[1] \in {"+", "-"}
         THEN IF AllDigits(Tail(t), 10)
              THEN BigVal(t[1] = "-", ParseRadix(Tail(t), 10))
              ELSE SyntaxError
    ELSE IF AllDigits(t, 10) THEN BigVal(FALSE, ParseRadix(t, 10))
    ELSE SyntaxError

----------------------------------------------------------------------------
(* The field parsers *)

ParseValueNoSuffix(value) == BigIntOfString(Trim(value))
ParseValue(value) ==
    LET trimmed == Trim(value) IN
    IF trimmed = <<>> THEN BigVal(FALSE, <<>>)
    ELSE IF IsHex(trimmed) THEN BigIntOfString(trimmed)
    ELSE IF EndsWith(trimmed, <<"n">>) THEN BigIntOfString(Front(trimmed))
    ELSE BigIntOfString(trimmed)

HexOk(h) == [ok |-> TRUE, hex |-> h]
InvalidHex(value) == [ok |-> FALSE, err |-> "Invalid hex value", input |-> value]

EmptyHex == <<"0", "x">>

ParseHexValue(value) ==
    LET trimmed == Trim(value) IN
    IF trimmed = <<>> \/ trimmed = EmptyHex THEN HexOk(EmptyHex)
    ELSE IF IsHex(trimmed) THEN HexOk(trimmed)
    ELSE InvalidHex(value)

----------------------------------------------------------------------------
(* JSON values, as far as parseUserOpFromRaw looks at them *)

JUndef  == [t |-> "undefined"]
JNull   == [t |-> "null"]
JStr(s) == [t |-> "string", s |-> s]
\* A number, with the text String(number) gives it.
JNum(s) == [t |-> "number", s |-> s]
\* An object, as the function from its keys to their values.
JObj(m) == [t |-> "object", members |-> m]

\* JSON.parse(raw).  The raw text is represented by the document it holds:
\* [syntax |-> FALSE] is any text that is not JSON (the empty text included).
JsonParse(raw) ==
    IF raw.syntax THEN [ok |-> TRUE, value |-> raw.value] ELSE SyntaxError

\* parsed.key: a TypeError on null, undefined on a missing key or a primitive.
Member(parsed, key) ==
    IF parsed.t \in {"null", "undefined"} THEN TypeError
    ELSE IF parsed.t = "object" /\ key \in DOMAIN parsed.members
         THEN [ok |-> TRUE, value |-> parsed.members[key]]
    ELSE [ok |-> TRUE, value |-> JUndef]

\* String(x)
ToStringJS(x) ==
    CASE x.t = "undefined" -> <<"u", "n", "d", "e", "f", "i", "n", "e", "d">>
      [] x.t = "null"      -> <<"n", "u", "l", "l">>
      [] x.t = "object"    -> <<"[", "o", "b", "j", "e", "c", "t", " ",
                                "O", "b", "j", "e", "c", "t", "]">>
      [] OTHER             -> x.s

\* parseValue(String(x))
ParseValueOf(x) == ParseValue(ToStringJS(x))

\* parseHexValue(x): value.trim() throws a TypeError unless x is a string.
ParseHexValueOf(x) ==
    IF x.t = "string" THEN ParseHexValue(x.s) ELSE TypeError

----------------------------------------------------------------------------
(* The UserOperation *)

IntFields == {"nonce", "callGasLimit", "verificationGasLimit",
              "preVerificationGas", "maxFeePerGas", "maxPriorityFeePerGas"}
HexFields == {"initCode", "callData", "paymasterAndData", "signature"}
UserOpFields == {"sender"} \cup IntFields \cup HexFields

Null == [ok |-> FALSE]

\* The object literal of a UserOpV06 over the parsers' results: the first
\* parser that throws leaves the try block, and the catch returns null.
UserOpV06(senderValue, ints, hexes) ==
    IF /\ \A f \in IntFields : ints[f].ok
       /\ \A f \in HexFields : hexes[f].ok
    THEN [ok |-> TRUE, sender |-> senderValue,
          ints  |-> [f \in IntFields |-> ints[f]],
          hexes |-> [f \in HexFields |-> hexes[f].hex]]
    ELSE Null

ParseUserOpFromRaw(raw) ==
    LET doc == JsonParse(raw) IN
    IF ~doc.ok THEN Null
    ELSE IF ~Member(doc.value, "sender").ok THEN Null
    ELSE UserOpV06(Member(doc.value, "sender").value,
                   [f \in IntFields |-> ParseValueOf(Member(doc.value, f).value)],
                   [f \in HexFields |-> ParseHexValueOf(Member(doc.value, f).value)])

FieldText(f) ==
    CASE f = "sender"               -> sender
      [] f = "nonce"                -> nonce
      [] f = "initCode"             -> initCode
      [] f = "callData"             -> callData
      [] f = "callGasLimit"         -> callGasLimit
      [] f = "verificationGasLimit" -> verificationGasLimit
      [] f = "preVerificationGas"   -> preVerificationGas
      [] f = "maxFeePerGas"         -> maxFeePerGas
      [] f = "maxPriorityFeePerGas" -> maxPriorityFeePerGas
      [] f = "paymasterAndData"     -> paymasterAndData
      [] f = "signature"            -> signature

\* The parsedUserOp memo: a function of the mode and the inputs.
parsedUserOp ==
    IF inputMode = "raw" THEN ParseUserOpFromRaw(rawInput)
    ELSE UserOpV06(JStr(sender),
                   [f \in IntFields |-> ParseValue(FieldText(f))],
                   [f \in HexFields |-> ParseHexValue(FieldText(f))])

----------------------------------------------------------------------------
(* Decoded argument values *)

VUndef   == [k |-> "undefined"]
VStr(s)  == [k |-> "string", s |-> s]
VBig(n)  == [k |-> "bigint", n |-> n]
VArr(es) == [k |-> "array", elems |-> es]
\* An object, as the function from its keys to their values.
VObj(fs) == [k |-> "object", fields |-> fs]
\* A decodedCall annotation: {...decodedInner, inputs}.
VCall(name, args, inputs) ==
    [k |-> "call", functionName |-> name, args |-> args, inputs |-> inputs]

Truthy(v) ==
    CASE v.k = "undefined" -> FALSE
      [] v.k = "string"    -> v.s # <<>>
      [] v.k = "bigint"    -> v.n # 0
      [] OTHER             -> TRUE

Field(obj, name) ==
    IF name \in DOMAIN obj.fields THEN obj.fields[name] ELSE VUndef

\* a || b
OrElse(a, b) == IF Truthy(a) THEN a ELSE b

TargetOf(objArg) == OrElse(Field(objArg, "target"), Field(objArg, "to"))
DataOf(objArg)   == OrElse(Field(objArg, "callData"), Field(objArg, "data"))

\* target && data && isHex(data) && data !== "0x"
IsCandidateAnyBytes(arg) ==
    /\ arg.k = "object"
    /\ Truthy(TargetOf(arg))
    /\ Truthy(DataOf(arg))
    /\ DataOf(arg).k = "string"
    /\ IsHex(DataOf(arg).s)
IsCandidate(arg) ==
    /\ arg.k = "object"
    /\ Truthy(TargetOf(arg))
    /\ Truthy(DataOf(arg))
    /\ DataOf(arg).k = "string"
    /\ IsHex(DataOf(arg).s)
    /\ DataOf(arg).s # EmptyHex

----------------------------------------------------------------------------
(* The collaborators: interface resolver and ABI decoder *)

AbiFunction(name, selector, inputs) ==
    [type |-> "function", name |-> name, selector |-> selector,
     inputs |-> inputs]
AbiEvent(name) == [type |-> "event", name |-> name]
Param(name, type) == [name |-> name, type |-> type]

Repeat(c, n) == [i \in 1..n |-> c]

Addr1 == <<"0", "x">> \o Repeat("a", 40)
Addr2 == <<"0", "x">> \o Repeat("b", 40)
Addr3 == <<"0", "x">> \o Repeat("c", 40)
Addr4 == <<"0", "x">> \o Repeat("d", 40)

\* Four-byte selectors.
SelExecute      == Repeat("a", 6) \o <<"0", "1">>
SelExecuteBatch == Repeat("a", 6) \o <<"0", "2">>
SelPing         == Repeat("a", 6) \o <<"0", "3">>
SelTransfer     == Repeat("b", 6) \o <<"0", "1">>
SelApprove      == Repeat("b", 6) \o <<"0", "2">>
SelPoke         == Repeat("c", 6) \o <<"0", "1">>
\* Overloads: execute(tuple) and poke(uint256).
SelExecuteOne   == Repeat("a", 6) \o <<"0", "4">>
SelPokeOne      == Repeat("c", 6) \o <<"0", "2">>

CallBytes(selector, payload) == <<"0", "x">> \o selector \o payload

TransferData == CallBytes(SelTransfer, <<"1", "0">>)
ApproveData  == CallBytes(SelApprove, <<"1", "1">>)
PokeData     == CallBytes(SelPoke, <<>>)
PokeOneData  == CallBytes(SelPokeOne, <<"1", "2">>)

ExecuteInputs ==
    <<Param("a", "uint256"), Param("call", "tuple"), Param("b", "address")>>
BatchInputs == <<Param("calls", "tuple[]")>>
TransferInputs == <<Param("to", "address"), Param("amount", "uint256")>>

AccountAbi ==
    <<AbiEvent("execute"),
      AbiFunction("execute", SelExecute, ExecuteInputs),
      AbiFunction("executeBatch", SelExecuteBatch, BatchInputs),
      AbiFunction("ping", SelPing, <<>>),
      AbiFunction("execute", SelExecuteOne, <<Param("call", "tuple")>>)>>
AccountAbiOnChain10 ==
    <<AbiFunction("run", SelExecute, ExecuteInputs),
      AbiFunction("runBatch", SelExecuteBatch, BatchInputs),
      AbiFunction("pong", SelPing, <<>>)>>
TokenAbi ==
    <<AbiFunction("transfer", SelTransfer, TransferInputs),
      AbiFunction("approve", SelApprove, TransferInputs)>>
OtherAbi ==
    <<AbiFunction("poke", SelPoke, <<>>),
      AbiFunction("poke", SelPokeOne, <<Param("n", "uint256")>>)>>

\* The interface the resolver recovers for an address on a chain, when it
\* recovers one: an empty interface for an address it knows nothing of.
Registry(chain, address) ==
    IF address = Addr1
    THEN IF chain = 10 THEN AccountAbiOnChain10 ELSE AccountAbi
    ELSE IF address = Addr2 THEN TokenAbi
    ELSE IF address = Addr3 THEN OtherAbi
    ELSE <<>>

ResolverOutcomes == {"abi", "noabi", "throw"}

\* whatsabi.autoload(address, {provider: client}), by its outcome.
Autoload(outcome, chain, address) ==
    CASE outcome = "abi"   -> [ok |-> TRUE, hasAbi |-> TRUE,
                               abi |-> Registry(chain, address)]
      [] outcome = "noabi" -> [ok |-> TRUE, hasAbi |-> FALSE, abi |-> <<>>]
      [] outcome = "throw" -> [ok |-> FALSE]

Call(target, data) ==
    VObj([f \in {"target", "data"} |->
            IF f = "target" THEN VStr(target) ELSE VStr(data)])
CallWithValue(target, value, data) ==
    VObj([f \in {"target", "value", "data"} |->
            IF f = "target" THEN VStr(target)
            ELSE IF f = "value" THEN VBig(value) ELSE VStr(data)])

\* The argument values an encoded payload holds (decodeAbiParameters), or
\* <<>> for a payload that does not decode.
PayloadArgs(payload) ==
    CASE payload = <<"0", "1">> ->
            <<VBig(7), Call(Addr2, TransferData), VStr(Addr3)>>
      [] payload = <<"0", "2">> ->
            <<VArr(<<CallWithValue(Addr2, 0, TransferData),
                     CallWithValue(Addr3, 1, PokeData),
                     CallWithValue(Addr2, 2, EmptyHex)>>)>>
      [] payload = <<"0", "3">> ->
            <<VBig(8), Call(Addr4, TransferData), VStr(Addr2)>>
      [] payload = <<"0", "4">> ->
            <<VArr(<<CallWithValue(Addr2, 0, ApproveData),
                     CallWithValue(Addr2, 0, TransferData)>>)>>
      [] payload = <<"0", "5">> ->
            <<VBig(7), Call(Addr2, EmptyHex), Call(Addr4, PokeData)>>
      [] payload = <<"0", "6">> ->
            <<VBig(7), Call(Addr1, <<"0", "x">> \o SelExecute \o <<"0", "1">>),
              VStr(Addr3)>>
      [] payload = <<"0", "7">> ->
            <<VBig(7),
              VObj([f \in {"id", "inner"} |->
                      IF f = "id" THEN VBig(1)
                      ELSE Call(Addr2, TransferData)]),
              VStr(Addr3)>>
      [] payload = <<"0", "8">> ->
            <<VBig(7),
              VObj([f \in {"target", "data", "decodedCall"} |->
                      IF f = "target" THEN VStr(Addr2)
                      ELSE IF f = "data" THEN VStr(TransferData)
                      ELSE VBig(1)]),
              VStr(Addr3)>>
      [] payload = <<"0", "9">> -> <<Call(Addr3, PokeOneData)>>
      [] payload = <<"1", "0">> -> <<VStr(Addr3), VBig(5)>>
      [] payload = <<"1", "2">> -> <<VBig(3)>>
      [] payload = <<"1", "1">> -> <<VStr(Addr1), VBig(9)>>
      [] OTHER -> <<>>

Min(S) == CHOOSE x \in S : \A y \in S : x <= y

\* viem decodeFunctionData({abi, data}): the function is found by its
\* selector; args is undefined for a function without inputs.
DecodeFunctionData(abi, data) ==
    LET sel == SubSeq(data, 3, 10)
        hits == {i \in 1..Len(abi) :
                    abi[i].type = "function" /\ abi[i].selector = sel}
    IN  IF Len(data) < 10 \/ hits = {}
        THEN [ok |-> FALSE, err |-> "AbiFunctionSignatureNotFoundError"]
        ELSE LET item == abi[Min(hits)]
                 args == PayloadArgs(SubSeq(data, 11, Len(data)))
             IN  IF item.inputs = <<>>
                 THEN [ok |-> TRUE, functionName |-> item.name, args |-> VUndef]
                 ELSE IF Len(args) # Len(item.inputs)
                 THEN [ok |-> FALSE, err |-> "AbiDecodingDataSizeTooSmallError"]
                 ELSE [ok |-> TRUE, functionName |-> item.name,
                       args |-> VArr(args)]

NoInputs == [defined |-> FALSE]

\* abi.find(item => item.type === "function" && item.name === name)?.inputs
FindInputs(abi, name) ==
    LET hits == {i \in 1..Len(abi) :
                    abi[i].type = "function" /\ abi[i].name = name}
    IN  IF hits = {} THEN NoInputs
        ELSE [defined |-> TRUE, params |-> abi[Min(hits)].inputs]

----------------------------------------------------------------------------
(* enrichArgs *)

Done(v)      == [st |-> "done", val |-> v]
Pending(arg) == [st |-> "pending", arg |-> arg]
All(items)   == [st |-> "all", items |-> items]
Rejected     == [st |-> "rejected"]

\* Promise.all over the items: rejected once one is, fulfilled with the
\* values by index once all are.
PromiseAll(items) ==
    IF \E i \in 1..Len(items) : items[i].st = "rejected" THEN Rejected
    ELSE IF \A i \in 1..Len(items) : items[i].st = "done"
    THEN Done(VArr([i \in 1..Len(items) |-> items[i].val]))
    ELSE All(items)

\* args.map(async (arg) => ...) up to each task's first await: an array is
\* handed to enrichArgs, a nested call candidate waits for the resolver,
\* anything else is returned as it is.
RECURSIVE Spawn(_)
Spawn(arg) ==
    IF arg.k = "array"
    THEN PromiseAll([i \in 1..Len(arg.elems) |-> Spawn(arg.elems[i])])
    ELSE IF IsCandidate(arg) THEN Pending(arg)
    ELSE Done(arg)

RECURSIVE PendingPaths(_)
PendingPaths(work) ==
    IF work.st = "pending" THEN {<<>>}
    ELSE IF work.st = "all"
    THEN UNION {{<<i>> \o q : q \in PendingPaths(work.items[i])} :
                    i \in 1..Len(work.items)}
    ELSE {}

RECURSIVE NodeAt(_, _)
NodeAt(work, path) ==
    IF path = <<>> THEN work ELSE NodeAt(work.items[Head(path)], Tail(path))

\* The settled task takes the place of its promise: the slot with its index.
FirstOpen(items) == Min({i \in 1..Len(items) : items[i].st # "done"})
StoreByCompletion(items, i, node) ==
    IF FirstOpen(items) = i THEN [items EXCEPT ![i] = node]
    ELSE [items EXCEPT ![FirstOpen(items)] = node,
                       ![i] = items[FirstOpen(items)]]
StoreAt(items, i, node) == [items EXCEPT ![i] = node]

RECURSIVE Settle(_, _, _)
Settle(work, path, node) ==
    IF path = <<>> THEN node
    ELSE PromiseAll(StoreAt(work.items, Head(path),
                            Settle(work.items[Head(path)], Tail(path), node)))

Annotated(objArg, call) ==
    VObj([f \in DOMAIN objArg.fields \cup {"decodedCall"} |->
            IF f = "decodedCall" THEN call ELSE objArg.fields[f]])

\* The body of the inner try block: what it returns, or that it threw, or
\* that it fell through (no interface).
InnerAttempt(objArg, outcome, chain) ==
    LET r == Autoload(outcome, chain, TargetOf(objArg).s) IN
    IF ~r.ok THEN [ok |-> FALSE]
    ELSE IF ~r.hasAbi THEN [ok |-> TRUE, val |-> objArg]
    ELSE LET decodedInner == DecodeFunctionData(r.abi, DataOf(objArg).s) IN
         IF ~decodedInner.ok THEN [ok |-> FALSE]
         ELSE [ok |-> TRUE,
               val |-> Annotated(objArg,
                          VCall(decodedInner.functionName, decodedInner.args,
                                FindInputs(r.abi, decodedInner.functionName)))]

\* A candidate's task once the resolver has answered: the catch logs and
\* the task returns the argument as it was.
InnerTaskNoCatch(objArg, outcome, chain) ==
    LET a == InnerAttempt(objArg, outcome, chain) IN
    IF a.ok THEN Done(a.val) ELSE Rejected
InnerTask(objArg, outcome, chain) ==
    LET a == InnerAttempt(objArg, outcome, chain) IN
    IF a.ok THEN Done(a.val) ELSE Done(objArg)

\* What a decode query holds: nothing yet, null, or the decoded call.
NoData   == [d |-> "undefined"]
NullData == [d |-> "null"]
Decoded(name, args, inputs) ==
    [d |-> "decoded", functionName |-> name, args |-> args, inputs |-> inputs]

----------------------------------------------------------------------------
(* Inputs *)

\* The characters the enumerated parser inputs are made of.
Alphabet == {" ", "0", "1", "x", "n", "-", "f"}

Strings(n) == UNION {[1..k -> Alphabet] : k \in 0..n}

\* 2^256 and 2^256 - 1, as hex literals.
Lit2p256    == <<"0", "x", "1">> \o Repeat("0", 64)
LitMaxU256  == <<"0", "x">> \o Repeat("f", 64)

NamedInputs ==
    { <<"0", "x", "1", "0">>, <<"1", "0">>, <<"1", "0", "n">>, <<>>,
      <<"0", "x">>, <<"0", "x", "1", "2", "3", "4">>,
      <<"0", "x", "1", "2", "3">>, <<"n">>, <<"0", "b", "1", "1">>,
      <<"-", "1">>, <<"2", "5", "5">>, <<"0", "x", "F", "f">>,
      <<" ", "4", "2", "n", " ">>, <<"1", "e", "3">>,
      Lit2p256, LitMaxU256 }

ParserInputs == Strings(MaxLen) \cup NamedInputs

SenderSamples == {<<>>, Addr1, <<"0", "x", "a", "b", "c">>}
NonceSamples ==
    {<<>>, <<"0", "x", "1", "0">>, <<"-", "1">>, <<"n">>,
     <<"n", "o", "t", "-", "a", "-", "n", "u", "m", "b", "e", "r">>, Lit2p256}
GasSamples == {<<>>, <<"z">>}
CallDataSamples ==
    {EmptyHex, <<"0", "x", "1", "2", "3", "4">>, <<"0", "x", "1", "2", "3">>,
     <<"1", "2">>}
BytesSamples == {EmptyHex, <<"0", "x", "g">>}

\* A raw text holding a JSON object with every field well-formed.
FullMembers ==
    [f \in UserOpFields |->
        IF f = "sender" THEN JStr(Addr1)
        ELSE IF f = "nonce" THEN JStr(<<"0", "x", "1", "0">>)
        ELSE IF f \in IntFields THEN JNum(<<"2", "1", "0", "0", "0">>)
        ELSE IF f = "callData" THEN JStr(<<"0", "x", "1", "2", "3", "4">>)
        ELSE JStr(EmptyHex)]

Without(m, key) == [f \in (DOMAIN m) \ {key} |-> m[f]]

RawDoc(v) == [syntax |-> TRUE, value |-> v]
NotJson   == [syntax |-> FALSE]

RawSamples ==
    { NotJson,
      RawDoc(JNull),
      RawDoc(JObj(FullMembers)),
      RawDoc(JObj(Without(FullMembers, "sender"))),
      RawDoc(JObj(Without(FullMembers, "signature"))),
      RawDoc(JObj([FullMembers EXCEPT
          !["sender"] = JStr(<<"0", "x", "a", "b", "c">>),
          !["nonce"] = JStr(<<"n", "o", "t", "-", "a", "-", "n", "u", "m",
                              "b", "e", "r">>)])) }

----------------------------------------------------------------------------
(* State *)

NotApplied == [fn |-> "none"]

EmptyMap == [x \in {} |-> x]

\* The useQueryState defaults.
InitInputs ==
    /\ inputMode = "raw"
    /\ rawInput = NotJson
    /\ sender = <<>>
    /\ nonce = <<>>
    /\ initCode = EmptyHex
    /\ callData = EmptyHex
    /\ callGasLimit = <<>>
    /\ verificationGasLimit = <<>>
    /\ preVerificationGas = <<>>
    /\ maxFeePerGas = <<>>
    /\ maxPriorityFeePerGas = <<>>
    /\ paymasterAndData = EmptyHex
    /\ signature = EmptyHex

InitQueries ==
    /\ decodeCache = EmptyMap
    /\ decodeRuns = EmptyMap
    /\ resolverCalls = {}
    /\ lateResult = FALSE
    /\ simulateQuery = EmptyMap
    /\ hashQuery = EmptyMap
    /\ expectedHash = <<>>

\* formatAbiType not called.
InitNoFormat ==
    /\ formatParam = [type |-> <<>>, name |-> <<>>, hasComponents |-> FALSE]
    /\ formatted = NotApplied

Init ==
    /\ text = <<>>
    /\ out = NotApplied
    /\ InitInputs
    /\ chainId = 1
    /\ InitQueries
    /\ InitNoFormat

----------------------------------------------------------------------------
(* The parsers, applied to one string *)

InitParse ==
    /\ text \in ParserInputs
    /\ out = NotApplied
    /\ InitInputs
    /\ chainId = 1
    /\ InitQueries
    /\ InitNoFormat

ApplyParseValue ==
    /\ out = NotApplied
    /\ out' = [fn |-> "parseValue", res |-> ParseValue(text)]
    /\ UNCHANGED <<text, inputVars, chainId, decodeVars, oracleVars, formatVars,
                   expectedHash>>

ApplyParseHexValue ==
    /\ out = NotApplied
    /\ out' = [fn |-> "parseHexValue", res |-> ParseHexValue(text)]
    /\ UNCHANGED <<text, inputVars, chainId, decodeVars, oracleVars, formatVars,
                   expectedHash>>

NextParse == ApplyParseValue \/ ApplyParseHexValue

SpecParse == InitParse /\ [][NextParse]_vars

----------------------------------------------------------------------------
(* The input handlers *)

SetChainId(c) ==
    /\ chainId' = c
    /\ UNCHANGED <<parseVars, inputVars, decodeVars, oracleVars, formatVars,
                   expectedHash>>

SetInputMode(m) ==
    /\ inputMode' = m
    /\ UNCHANGED <<parseVars, rawInput, fieldVars, chainId, decodeVars, oracleVars, formatVars,
                   expectedHash>>

SetRawInput(r) ==
    /\ rawInput' = r
    /\ UNCHANGED <<parseVars, inputMode, fieldVars, chainId, decodeVars, oracleVars, formatVars,
                   expectedHash>>

SetSender(v) ==
    /\ sender' = v
    /\ UNCHANGED <<parseVars, inputMode, rawInput, nonce, initCode,
                   callData, callGasLimit, verificationGasLimit,
                   preVerificationGas, maxFeePerGas, maxPriorityFeePerGas,
                   paymasterAndData, signature, chainId, decodeVars, oracleVars, formatVars,
                   expectedHash>>

SetNonce(v) ==
    /\ nonce' = v
    /\ UNCHANGED <<parseVars, inputMode, rawInput, sender, initCode,
                   callData, callGasLimit, verificationGasLimit,
                   preVerificationGas, maxFeePerGas, maxPriorityFeePerGas,
                   paymasterAndData, signature, chainId, decodeVars, oracleVars, formatVars,
                   expectedHash>>

SetInitCode(v) ==
    /\ initCode' = v
    /\ UNCHANGED <<parseVars, inputMode, rawInput, sender, nonce, callData,
                   callGasLimit, verificationGasLimit, preVerificationGas,
                   maxFeePerGas, maxPriorityFeePerGas, paymasterAndData,
                   signature, chainId, decodeVars, oracleVars, formatVars,
                   expectedHash>>

SetCallData(v) ==
    /\ callData' = v
    /\ UNCHANGED <<parseVars, inputMode, rawInput, sender, nonce, initCode,
                   callGasLimit, verificationGasLimit, preVerificationGas,
                   maxFeePerGas, maxPriorityFeePerGas, paymasterAndData,
                   signature, chainId, decodeVars, oracleVars, formatVars,
                   expectedHash>>

SetCallGasLimit(v) ==
    /\ callGasLimit' = v
    /\ UNCHANGED <<parseVars, inputMode, rawInput, sender, nonce, initCode,
                   callData, verificationGasLimit, preVerificationGas,
                   maxFeePerGas, maxPriorityFeePerGas, paymasterAndData,
                   signature, chainId, decodeVars, oracleVars, formatVars,
                   expectedHash>>

SetVerificationGasLimit(v) ==
    /\ verificationGasLimit' = v
    /\ UNCHANGED <<parseVars, inputMode, rawInput, sender, nonce, initCode,
                   callData, callGasLimit, preVerificationGas,
                   maxFeePerGas, maxPriorityFeePerGas, paymasterAndData,
                   signature, chainId, decodeVars, oracleVars, formatVars,
                   expectedHash>>

SetPreVerificationGas(v) ==
    /\ preVerificationGas' = v
    /\ UNCHANGED <<parseVars, inputMode, rawInput, sender, nonce, initCode,
                   callData, callGasLimit, verificationGasLimit,
                   maxFeePerGas, maxPriorityFeePerGas, paymasterAndData,
                   signature, chainId, decodeVars, oracleVars, formatVars,
                   expectedHash>>

SetMaxFeePerGas(v) ==
    /\ maxFeePerGas' = v
    /\ UNCHANGED <<parseVars, inputMode, rawInput, sender, nonce, initCode,
                   callData, callGasLimit, verificationGasLimit,
                   preVerificationGas, maxPriorityFeePerGas,
                   paymasterAndData, signature, chainId, decodeVars, oracleVars, formatVars,
                   expectedHash>>

SetMaxPriorityFeePerGas(v) ==
    /\ maxPriorityFeePerGas' = v
    /\ UNCHANGED <<parseVars, inputMode, rawInput, sender, nonce, initCode,
                   callData, callGasLimit, verificationGasLimit,
                   preVerificationGas, maxFeePerGas, paymasterAndData,
                   signature, chainId, decodeVars, oracleVars, formatVars,
                   expectedHash>>

SetPaymasterAndData(v) ==
    /\ paymasterAndData' = v
    /\ UNCHANGED <<parseVars, inputMode, rawInput, sender, nonce, initCode,
                   callData, callGasLimit, verificationGasLimit,
                   preVerificationGas, maxFeePerGas, maxPriorityFeePerGas,
                   signature, chainId, decodeVars, oracleVars, formatVars,
                   expectedHash>>

SetSignature(v) ==
    /\ signature' = v
    /\ UNCHANGED <<parseVars, inputMode, rawInput, sender, nonce, initCode,
                   callData, callGasLimit, verificationGasLimit,
                   preVerificationGas, maxFeePerGas, maxPriorityFeePerGas,
                   paymasterAndData, chainId, decodeVars, oracleVars, formatVars,
                   expectedHash>>

NextNorm ==
    \/ \E m \in {"raw", "fields"} : SetInputMode(m)
    \/ \E r \in RawSamples : SetRawInput(r)
    \/ \E v \in SenderSamples : SetSender(v)
    \/ \E v \in NonceSamples : SetNonce(v)
    \/ \E v \in BytesSamples : SetInitCode(v)
    \/ \E v \in CallDataSamples : SetCallData(v)
    \/ \E v \in GasSamples : SetCallGasLimit(v)
    \/ \E v \in GasSamples : SetVerificationGasLimit(v)
    \/ \E v \in GasSamples : SetPreVerificationGas(v)
    \/ \E v \in GasSamples : SetMaxFeePerGas(v)
    \/ \E v \in GasSamples : SetMaxPriorityFeePerGas(v)
    \/ \E v \in BytesSamples : SetPaymasterAndData(v)
    \/ \E v \in BytesSamples : SetSignature(v)

SpecNorm == Init /\ [][NextNorm]_vars

----------------------------------------------------------------------------
(* The decodeCallData query *)

SupportedChains == {1, 10}

\* The public client of the selected chain, or none for an unknown chain.
client ==
    IF chainId \in SupportedChains
    THEN [defined |-> TRUE, chain |-> chainId]
    ELSE [defined |-> FALSE]

TruthyJ(x) ==
    CASE x.t \in {"undefined", "null"} -> FALSE
      [] x.t = "string" -> x.s # <<>>
      [] x.t = "number" -> x.s # <<"0">>
      [] OTHER -> TRUE

\* parsedUserOp?.sender and parsedUserOp?.callData
SenderOf(op)   == IF op.ok THEN op.sender ELSE JUndef
CallDataOf(op) == IF op.ok THEN JStr(op.hexes["callData"]) ELSE JUndef
OpSender   == SenderOf(parsedUserOp)
OpCallData == CallDataOf(parsedUserOp)

DecodeKey ==
    LET op == parsedUserOp IN <<SenderOf(op), CallDataOf(op), chainId>>

\* enabled, of the key <<sender, callData, chain>>
DecodeEnabled(key) ==
    /\ TruthyJ(key[1])
    /\ TruthyJ(key[2])
    /\ key[2].s # EmptyHex
    /\ client.defined

\* The guard that opens the query function.
QueryFnReturnsNullAtOnce(key) ==
    \/ ~TruthyJ(key[1])
    \/ ~TruthyJ(key[2])
    \/ key[2].s = EmptyHex
    \/ ~client.defined

ResolverCall(target, data, chain) ==
    [target |-> target, data |-> data, chain |-> chain]

\* The query a result is stored in: the one whose function produced it.
ResultKeyCurrent(key) == DecodeKey
ResultKey(key) == key

Drop(f, key) == [x \in (DOMAIN f) \ {key} |-> f[x]]
Put(f, key, v) == [x \in (DOMAIN f) \cup {key} |-> IF x = key THEN v ELSE f[x]]

\* The query function has returned data.
Finish(key, data) ==
    /\ decodeCache' = Put(decodeCache, ResultKey(key), [data |-> data])
    /\ decodeRuns' = Drop(decodeRuns, key)
    /\ lateResult' = (key # DecodeKey)

\* The observer starts the query function for the current key.
StartDecodeFetch ==
    LET key == DecodeKey IN
    /\ DecodeEnabled(key)
    /\ key \notin DOMAIN decodeRuns
    /\ IF QueryFnReturnsNullAtOnce(key)
       THEN /\ decodeCache' = Put(decodeCache, key, [data |-> NullData])
            /\ UNCHANGED <<decodeRuns, resolverCalls, lateResult>>
       ELSE /\ decodeRuns' = Put(decodeRuns, key,
                                  [stage |-> "resolving",
                                   sender |-> key[1].s,
                                   callData |-> key[2].s,
                                   chain |-> client.chain])
            /\ resolverCalls' = resolverCalls \cup
                    {ResolverCall(key[1].s, key[2].s, client.chain)}
            /\ UNCHANGED <<decodeCache, lateResult>>
    /\ UNCHANGED <<parseVars, inputVars, chainId, oracleVars, formatVars,
                   expectedHash>>

\* The calls enrichArgs makes to the resolver for the tasks it has spawned.
CallsFor(work, chain) ==
    {ResolverCall(TargetOf(NodeAt(work, q).arg).s,
                  DataOf(NodeAt(work, q).arg).s, chain) :
        q \in PendingPaths(work)}

\* The resolver answers for the sender: decode, look the inputs up, and
\* start enrichArgs.
TopResolved(key, outcome) ==
    /\ key \in DOMAIN decodeRuns
    /\ decodeRuns[key].stage = "resolving"
    /\ LET run == decodeRuns[key]
           result == Autoload(outcome, run.chain, run.sender)
           decoded == DecodeFunctionData(result.abi, run.callData)
           inputs == FindInputs(result.abi, decoded.functionName)
           work == Spawn(decoded.args)
       IN  IF ~result.ok \/ ~result.hasAbi \/ ~decoded.ok
           THEN Finish(key, NullData) /\ UNCHANGED resolverCalls
           ELSE IF ~Truthy(decoded.args)
           THEN /\ Finish(key, Decoded(decoded.functionName, VUndef, inputs))
                /\ UNCHANGED resolverCalls
           ELSE /\ resolverCalls' = resolverCalls \cup CallsFor(work, run.chain)
                /\ IF work.st = "done"
                   THEN Finish(key, Decoded(decoded.functionName, work.val,
                                            inputs))
                   ELSE /\ decodeRuns' =
                            [decodeRuns EXCEPT ![key] =
                                [stage |-> "enriching", sender |-> run.sender,
                                 callData |-> run.callData, chain |-> run.chain,
                                 functionName |-> decoded.functionName,
                                 inputs |-> inputs, work |-> work]]
                        /\ UNCHANGED <<decodeCache, lateResult>>
    /\ UNCHANGED <<parseVars, inputVars, chainId, oracleVars, formatVars,
                   expectedHash>>

\* The resolver answers for one nested call candidate.
InnerResolved(key, path, outcome) ==
    /\ key \in DOMAIN decodeRuns
    /\ decodeRuns[key].stage = "enriching"
    /\ path \in PendingPaths(decodeRuns[key].work)
    /\ LET run == decodeRuns[key]
           node == InnerTask(NodeAt(run.work, path).arg, outcome, run.chain)
           work == Settle(run.work, path, node)
       IN  IF work.st = "done"
           THEN Finish(key, Decoded(run.functionName, work.val, run.inputs))
           ELSE IF work.st = "rejected"
           THEN Finish(key, NullData)
           ELSE /\ decodeRuns' = [decodeRuns EXCEPT ![key].work = work]
                /\ UNCHANGED <<decodeCache, lateResult>>
    /\ UNCHANGED <<parseVars, inputVars, chainId, resolverCalls, oracleVars, formatVars,
                   expectedHash>>

\* data and isLoading of the query for the current key.
DataOfKey(key) ==
    IF key \in DOMAIN decodeCache THEN decodeCache[key].data ELSE NoData
decodedCallData == DataOfKey(DecodeKey)
isDecodingCallData ==
    LET key == DecodeKey IN
    key \in DOMAIN decodeRuns /\ DataOfKey(key) = NoData

\* What the Decoded CallData section shows.
DecodedSection ==
    LET key == DecodeKey IN
    IF ~(TruthyJ(key[2]) /\ key[2].s # EmptyHex)
    THEN [shows |-> "nothing"]
    ELSE IF key \in DOMAIN decodeRuns /\ DataOfKey(key) = NoData
    THEN [shows |-> "Decoding..."]
    ELSE IF DataOfKey(key).d = "decoded"
    THEN [shows |-> "call", call |-> DataOfKey(key)]
    ELSE [shows |-> "Could not decode callData"]

\* The decode steps of any query in flight.
DecodeStep ==
    \/ StartDecodeFetch
    \/ \E key \in DOMAIN decodeRuns : \E outcome \in ResolverOutcomes :
            TopResolved(key, outcome)
    \/ \E key \in DOMAIN decodeRuns : \E outcome \in ResolverOutcomes :
            /\ decodeRuns[key].stage = "enriching"
            /\ \E path \in PendingPaths(decodeRuns[key].work) :
                    InnerResolved(key, path, outcome)

\* One decode of one UserOperation, the inputs given in the URL.
EnrichCallData ==
    { CallBytes(SelExecute, <<"0", "1">>),
      CallBytes(SelExecuteBatch, <<"0", "2">>),
      CallBytes(SelExecute, <<"0", "3">>),
      CallBytes(SelExecuteBatch, <<"0", "4">>),
      CallBytes(SelExecute, <<"0", "5">>),
      CallBytes(SelExecute, <<"0", "6">>),
      CallBytes(SelExecute, <<"0", "7">>),
      CallBytes(SelExecute, <<"0", "8">>),
      CallBytes(SelExecuteOne, <<"0", "9">>),
      CallBytes(SelPing, <<>>),
      CallBytes(SelTransfer, <<"1", "0">>) }

InitFields ==
    /\ inputMode = "fields"
    /\ rawInput = NotJson
    /\ nonce = <<>>
    /\ initCode = EmptyHex
    /\ callGasLimit = <<>>
    /\ verificationGasLimit = <<>>
    /\ preVerificationGas = <<>>
    /\ maxFeePerGas = <<>>
    /\ maxPriorityFeePerGas = <<>>
    /\ paymasterAndData = EmptyHex
    /\ signature = EmptyHex
    /\ text = <<>>
    /\ out = NotApplied

InitEnrich ==
    /\ InitFields
    /\ sender = Addr1
    /\ callData \in EnrichCallData
    /\ chainId = 1
    /\ InitQueries
    /\ InitNoFormat

NextEnrich == DecodeStep

SpecEnrich == InitEnrich /\ [][NextEnrich]_vars

\* The decode query under changing callData and chain.
DecodeCallData ==
    {EmptyHex, <<"z">>, CallBytes(SelExecute, <<"0", "5">>),
     CallBytes(SelPing, <<>>)}

InitDecode ==
    /\ InitFields
    /\ sender = Addr1
    /\ callData = EmptyHex
    /\ chainId = 1
    /\ InitQueries
    /\ InitNoFormat

NextDecode ==
    \/ \E v \in DecodeCallData : SetCallData(v)
    \/ \E c \in SupportedChains : SetChainId(c)
    \/ DecodeStep

SpecDecode == InitDecode /\ [][NextDecode]_vars

----------------------------------------------------------------------------
(* Reference definitions of the literals the specification speaks of *)

\* The number a short digit string denotes, by Horner's rule on integers.
RECURSIVE RefValue(_, _)
RefValue(digits, radix) ==
    IF digits = <<>> THEN 0
    ELSE RefValue(Front(digits), radix) * radix + DigitVal(Last(digits))

\* The integer of a magnitude of at most two limbs.
ToInt(mag) ==
    IF mag = <<>> THEN 0
    ELSE IF Len(mag) = 1 THEN mag[1]
    ELSE mag[1] + LimbBase * mag[2]

\* A literal short enough for its value to be computed on TLC's integers.
Short(digits) == Len(digits) <= 7

IsDecLiteral(s) == s # <<>> /\ \A i \in 1..Len(s) : DigitVal(s[i]) < 10
IsHexLiteral(s) ==
    /\ Len(s) >= 3
    /\ s[1] = "0" /\ s[2] = "x"
    /\ \A i \in 3..Len(s) : DigitVal(s[i]) < 16
HexDigitsOf(s) == SubSeq(s, 3, Len(s))

IsNat(res, n) == res.ok /\ ~res.neg /\ Len(res.mag) <= 2 /\ ToInt(res.mag) = n

FitsUint256(v) == ~v.neg /\ Len(v.mag) <= 16

----------------------------------------------------------------------------
(* C2 *)

\* C2: parseValue follows the integer rule on every valid literal: after
\* trimming, the empty string is 0, a 0x literal is its hex value, decimal
\* digits followed by n are the decimal value of the digits, plain decimal
\* digits are their decimal value ("0x10" is 16, "10" is 10, "10n" is 10,
\* "" is 0, and 0x1 followed by 64 zeros is 2^256).
C2_ParseValueRule ==
    out.fn = "parseValue" =>
        LET t == Trim(text) IN
        /\ t = <<>> => IsNat(out.res, 0)
        /\ (IsHexLiteral(t) /\ Short(t)) =>
                IsNat(out.res, RefValue(HexDigitsOf(t), 16))
        /\ (t # <<>> /\ Last(t) = "n" /\ IsDecLiteral(Front(t)) /\ Short(t)) =>
                IsNat(out.res, RefValue(Front(t), 10))
        /\ (IsDecLiteral(t) /\ Short(t)) => IsNat(out.res, RefValue(t, 10))
        /\ text = <<"0", "x", "1", "0">> => IsNat(out.res, 16)
        /\ text = <<"1", "0">> => IsNat(out.res, 10)
        /\ text = <<"1", "0", "n">> => IsNat(out.res, 10)
        /\ text = <<>> => IsNat(out.res, 0)
        /\ text = Lit2p256 =>
                /\ out.res.ok /\ ~out.res.neg
                /\ out.res.mag = Repeat(0, 16) \o <<1>>

\* parseValue has parsed a decimal literal with the n suffix.
C2_Witness ==
    /\ out.fn = "parseValue"
    /\ text = <<" ", "1", "0", "n">>
    /\ IsNat(out.res, 10)

----------------------------------------------------------------------------
(* C3 *)

\* C3: parseValue accepts a non-empty input only if what is left after
\* trimming and stripping an n suffix is a hex literal with at least one
\* digit or a decimal literal with at least one digit.
C3_RejectsNonLiterals ==
    (out.fn = "parseValue" /\ Trim(text) # <<>> /\ out.res.ok) =>
        LET t == Trim(text)
            u == IF Last(t) = "n" THEN Front(t) ELSE t
        IN  IsHexLiteral(u) \/ IsDecLiteral(u)

----------------------------------------------------------------------------
(* C4 *)

\* C4: parseHexValue follows the byte-string rule: after trimming, "" and
\* "0x" give the empty marker; any other value is accepted, as it stands,
\* only if it is 0x followed by an even number of hex digits, and is
\* otherwise rejected with 'Invalid hex value' and the raw input.
C4_ParseHexValueRule ==
    out.fn = "parseHexValue" =>
        LET t == Trim(text) IN
        IF t = <<>> \/ t = EmptyHex THEN out.res = HexOk(EmptyHex)
        ELSE IF IsHexLiteral(t) /\ Len(HexDigitsOf(t)) % 2 = 0
             THEN out.res = HexOk(t)
        ELSE out.res = InvalidHex(text)

----------------------------------------------------------------------------
(* C1, C5 *)

\* The value a field is read from, in the current mode.
FieldSource(f) ==
    IF inputMode = "raw"
    THEN IF JsonParse(rawInput).ok /\ Member(JsonParse(rawInput).value, f).ok
         THEN Member(JsonParse(rawInput).value, f).value
         ELSE JUndef
    ELSE JStr(FieldText(f))

WellFormedSender(x) ==
    /\ x.t = "string"
    /\ IsHexLiteral(x.s)
    /\ Len(HexDigitsOf(x.s)) = 40

WellFormedInt(x) ==
    /\ x.t \in {"string", "number"}
    /\ LET t == Trim(x.s)
           u == IF t # <<>> /\ Last(t) = "n" THEN Front(t) ELSE t
       IN  \/ t = <<>>
           \/ IsHexLiteral(t) /\ Len(HexDigitsOf(t)) <= 64
           \/ IsDecLiteral(u) /\ Short(u)

WellFormedBytes(x) ==
    /\ x.t = "string"
    /\ LET t == Trim(x.s)
       IN  \/ t = <<>>
           \/ t = EmptyHex
           \/ IsHexLiteral(t) /\ Len(HexDigitsOf(t)) % 2 = 0

\* C1: normalization fails as a unit in both modes: a record is produced
\* only when every one of the eleven fields, sender included, is present
\* and well-formed.
C1_FailsAsUnit ==
    parsedUserOp.ok =>
        /\ WellFormedSender(FieldSource("sender"))
        /\ \A f \in IntFields : WellFormedInt(FieldSource(f))
        /\ \A f \in HexFields : WellFormedBytes(FieldSource(f))

\* C5: every record normalization produces has each integer field in
\* 0 <= v < 2^256.
C5_IntegerRange ==
    parsedUserOp.ok => \A f \in IntFields : FitsUint256(parsedUserOp.ints[f])

----------------------------------------------------------------------------
(* The simulateUserOp query and the getUserOpHash read *)

\* The retry option of a query: false, true, a number, or not set.
RetryBool(b)  == [t |-> "boolean", b |-> b]
RetryCount(n) == [t |-> "number", n |-> n]
RetryUnset    == [t |-> "undefined"]

RetryOnce     == RetryCount(1)
SimulateRetry == RetryBool(FALSE)
HashRetry     == RetryUnset

\* The retry default of the query client the application is mounted with.
ClientDefaultRetry == RetryBool(FALSE)

\* The option in force: the query's own, else the client's default, else
\* the library's three.
RetryInForce(option) ==
    IF option.t # "undefined" THEN option
    ELSE IF ClientDefaultRetry.t # "undefined" THEN ClientDefaultRetry
    ELSE RetryCount(3)

ShouldRetry(option, failureCount) ==
    LET retry == RetryInForce(option) IN
    \/ retry.t = "boolean" /\ retry.b
    \/ retry.t = "number" /\ failureCount < retry.n

NoResult == [d |-> "undefined"]

\* The observer starts a fetch of the query.
QueryFetch(q, key) ==
    Put(q, key,
        IF key \in DOMAIN q
        THEN [q[key] EXCEPT !.fetching = TRUE, !.failureCount = 0,
                            !.status = IF q[key].data = NoResult
                                       THEN "pending" ELSE @]
        ELSE [fetching |-> TRUE, status |-> "pending", failureCount |-> 0,
              data |-> NoResult])

\* The query function has resolved.
QuerySuccess(q, key, data) ==
    [q EXCEPT ![key] = [fetching |-> FALSE, status |-> "success",
                        failureCount |-> 0, data |-> data]]

\* The query function has rejected: it is run again if the retry option
\* says so, and else the query is in error.
QueryFailure(q, key, option) ==
    IF ShouldRetry(option, q[key].failureCount)
    THEN [q EXCEPT ![key].failureCount = @ + 1]
    ELSE [q EXCEPT ![key].failureCount = @ + 1, ![key].fetching = FALSE,
                   ![key].status = "error"]

Fetching(q) == {k \in DOMAIN q : q[k].fetching}

SimulateKey == DecodeKey
SimulateEnabled(key) == DecodeEnabled(key)

StartSimulate ==
    LET key == SimulateKey IN
    /\ SimulateEnabled(key)
    /\ key \notin Fetching(simulateQuery)
    /\ simulateQuery' = QueryFetch(simulateQuery, key)
    /\ UNCHANGED <<parseVars, inputVars, chainId, decodeVars, hashQuery,
                   formatVars, expectedHash>>

\* client.simulateCalls answers.
SimulateReturns(key) ==
    /\ key \in Fetching(simulateQuery)
    /\ simulateQuery' = QuerySuccess(simulateQuery, key, [d |-> "result"])
    /\ UNCHANGED <<parseVars, inputVars, chainId, decodeVars, hashQuery,
                   formatVars, expectedHash>>

\* client.simulateCalls throws, and the query function throws it on.
SimulateThrows(key) ==
    /\ key \in Fetching(simulateQuery)
    /\ simulateQuery' = QueryFailure(simulateQuery, key, SimulateRetry)
    /\ UNCHANGED <<parseVars, inputVars, chainId, decodeVars, hashQuery,
                   formatVars, expectedHash>>

\* The read is keyed by its arguments and chain.
HashKey == <<parsedUserOp, chainId>>
HashEnabled(key) == key[1].ok

HashSamples == {<<"0", "x", "A", "b">>, <<"0", "x", "c", "d">>}

StartHash ==
    LET key == HashKey IN
    /\ HashEnabled(key)
    /\ key \notin Fetching(hashQuery)
    /\ hashQuery' = QueryFetch(hashQuery, key)
    /\ UNCHANGED <<parseVars, inputVars, chainId, decodeVars, simulateQuery,
                   formatVars, expectedHash>>

HashReturns(key, hash) ==
    /\ key \in Fetching(hashQuery)
    /\ hashQuery' = QuerySuccess(hashQuery, key, [d |-> "hash", hash |-> hash])
    /\ UNCHANGED <<parseVars, inputVars, chainId, decodeVars, simulateQuery,
                   formatVars, expectedHash>>

HashThrows(key) ==
    /\ key \in Fetching(hashQuery)
    /\ hashQuery' = QueryFailure(hashQuery, key, HashRetry)
    /\ UNCHANGED <<parseVars, inputVars, chainId, decodeVars, simulateQuery,
                   formatVars, expectedHash>>

\* What each hook returns for the current inputs.
EntryOf(q, key) ==
    IF key \in DOMAIN q THEN q[key]
    ELSE [fetching |-> FALSE, status |-> "pending", failureCount |-> 0,
          data |-> NoResult]
simulationResult == EntryOf(simulateQuery, SimulateKey).data
simulationError  == EntryOf(simulateQuery, SimulateKey).status = "error"
computedHash     == EntryOf(hashQuery, HashKey).data
error            == EntryOf(hashQuery, HashKey).status = "error"

OracleNonces == {<<>>, <<"z">>}

InitOracle ==
    /\ InitFields
    /\ sender = Addr1
    /\ callData = CallBytes(SelPing, <<>>)
    /\ chainId = 1
    /\ InitQueries
    /\ InitNoFormat

NextOracle ==
    \/ \E v \in OracleNonces : SetNonce(v)
    \/ \E c \in SupportedChains : SetChainId(c)
    \/ StartSimulate
    \/ \E key \in DOMAIN simulateQuery : SimulateReturns(key)
    \/ \E key \in DOMAIN simulateQuery : SimulateThrows(key)
    \/ StartHash
    \/ \E key \in DOMAIN hashQuery : \E h \in HashSamples : HashReturns(key, h)
    \/ \E key \in DOMAIN hashQuery : HashThrows(key)

SpecOracle == InitOracle /\ [][NextOracle]_vars

----------------------------------------------------------------------------
(* The hash comparison *)

UpperCase ==
    <<"A", "B", "C", "D", "E", "F", "G", "H", "I", "J", "K", "L", "M",
      "N", "O", "P", "Q", "R", "S", "T", "U", "V", "W", "X", "Y", "Z">>
LowerCase ==
    <<"a", "b", "c", "d", "e", "f", "g", "h", "i", "j", "k", "l", "m",
      "n", "o", "p", "q", "r", "s", "t", "u", "v", "w", "x", "y", "z">>

\* String.prototype.toLowerCase
ToLowerCase(s) ==
    [i \in 1..Len(s) |->
        IF \E j \in 1..Len(UpperCase) : UpperCase[j] = s[i]
        THEN LowerCase[CHOOSE j \in 1..Len(UpperCase) : UpperCase[j] = s[i]]
        ELSE s[i]]

SetExpectedHash(v) ==
    /\ expectedHash' = v
    /\ UNCHANGED <<parseVars, inputVars, chainId, decodeVars, oracleVars,
                   formatVars>>

normalizedExpectedHash == ToLowerCase(Trim(expectedHash))

\* computedHash?.toLowerCase(), the computed hash taken as it is.
ComputedHashAsIs ==
    IF computedHash.d = "hash"
    THEN [defined |-> TRUE, s |-> computedHash.hash]
    ELSE [defined |-> FALSE]
normalizedComputedHash ==
    IF computedHash.d = "hash"
    THEN [defined |-> TRUE, s |-> ToLowerCase(computedHash.hash)]
    ELSE [defined |-> FALSE]

hashesMatch ==
    /\ normalizedExpectedHash # <<>>
    /\ normalizedComputedHash.defined
    /\ normalizedComputedHash.s # <<>>
    /\ normalizedExpectedHash = normalizedComputedHash.s

\* The Hash Comparison section: absent, or the verdict it shows.
HashComparison ==
    IF normalizedExpectedHash # <<>>
       /\ computedHash.d = "hash" /\ computedHash.hash # <<>>
    THEN [shown |-> TRUE,
          verdict |-> IF hashesMatch THEN "match" ELSE "mismatch"]
    ELSE [shown |-> FALSE]

ExpectedSamples ==
    {<<>>, <<" ">>, <<" ", "0", "x", "A", "B", " ">>, <<"0", "x", "c", "d">>,
     <<"0", "x", "e", "e">>}

NextHash ==
    \/ \E v \in OracleNonces : SetNonce(v)
    \/ \E c \in SupportedChains : SetChainId(c)
    \/ \E v \in ExpectedSamples : SetExpectedHash(v)
    \/ StartHash
    \/ \E key \in DOMAIN hashQuery : \E h \in HashSamples : HashReturns(key, h)
    \/ \E key \in DOMAIN hashQuery : HashThrows(key)

SpecHash == InitOracle /\ [][NextHash]_vars

----------------------------------------------------------------------------
(* formatAbiType *)

\* An AbiParameter: its type, its name ("" when it has none) and, for a
\* tuple type, the parameters of its components.
AbiLeaf(type, name) ==
    [type |-> type, name |-> name, hasComponents |-> FALSE]
AbiTuple(type, name, components) ==
    [type |-> type, name |-> name, hasComponents |-> TRUE,
     components |-> components]

TupleType      == <<"t", "u", "p", "l", "e">>
TupleArrayType == TupleType \o <<"[", "]">>

\* parts.join(", ")
RECURSIVE Join(_)
Join(parts) ==
    IF parts = <<>> THEN <<>>
    ELSE IF Len(parts) = 1 THEN parts[1]
    ELSE parts[1] \o <<",", " ">> \o Join(Tail(parts))

RECURSIVE FormatAbiType(_)
FormatAbiType(param) ==
    IF param.type = TupleType /\ param.hasComponents
    THEN <<"(">> \o
         Join([i \in 1..Len(param.components) |->
                 Trim(FormatAbiType(param.components[i]) \o <<" ">>
                      \o param.components[i].name)])
         \o <<")">>
    ELSE IF param.type = TupleArrayType /\ param.hasComponents
    THEN <<"(">> \o
         Join([i \in 1..Len(param.components) |->
                 Trim(FormatAbiType(param.components[i]) \o <<" ">>
                      \o param.components[i].name)])
         \o <<")", "[", "]">>
    ELSE param.type

\* The descriptors formatAbiType is applied to.
MaxDepth      == 2
MaxComponents == 2

LeafParams ==
    {AbiLeaf(<<"i", "n", "t">>, <<>>), AbiLeaf(<<"b", "o", "o", "l">>, <<"a">>)}
TupleTypes ==
    {TupleType, TupleArrayType, TupleType \o <<"[", "2", "]">>}
TupleNames == {<<>>, <<"t">>}

SeqsUpTo(S, n) == UNION {[1..k -> S] : k \in 0..n}

RECURSIVE ParamsOfDepth(_)
ParamsOfDepth(d) ==
    IF d = 0 THEN LeafParams
    ELSE LET below == ParamsOfDepth(d - 1) IN
         below \cup
         {AbiTuple(t, n, cs) : t \in TupleTypes, n \in TupleNames,
                              cs \in SeqsUpTo(below, MaxComponents)}

FormatParams == ParamsOfDepth(MaxDepth)

InitFormat ==
    /\ InitFields
    /\ sender = <<>>
    /\ callData = EmptyHex
    /\ chainId = 1
    /\ InitQueries
    /\ formatParam \in FormatParams
    /\ formatted = NotApplied

ApplyFormatAbiType ==
    /\ formatted = NotApplied
    /\ formatted' = [fn |-> "formatAbiType", res |-> FormatAbiType(formatParam)]
    /\ UNCHANGED <<parseVars, inputVars, chainId, decodeVars, oracleVars,
                   expectedHash, formatParam>>

NextFormat == ApplyFormatAbiType

SpecFormat == InitFormat /\ [][NextFormat]_vars

----------------------------------------------------------------------------
(* Reference definitions for the decode claims *)

\* What decoding the key's call data against the interface of the key's
\* sender on the key's chain gives.
ReferenceDecode(key) ==
    DecodeFunctionData(Registry(key[3], key[1].s), key[2].s)

\* The decodedCall a candidate gets when its own interface is resolved
\* and its bytes decode.
ReferenceCall(arg, chain) ==
    LET abi == Registry(chain, TargetOf(arg).s)
        d   == DecodeFunctionData(abi, DataOf(arg).s)
    IN  IF d.ok
        THEN {VCall(d.functionName, d.args, FindInputs(abi, d.functionName))}
        ELSE {}

HasDecodedCall(v) == v.k = "object" /\ "decodedCall" \in DOMAIN v.fields

\* r is the original argument a, or a with nothing but a decodedCall of
\* its own added; arrays position by position.
RECURSIVE DerivedFrom(_, _, _)
DerivedFrom(r, a, chain) ==
    IF a.k = "array"
    THEN /\ r.k = "array"
         /\ Len(r.elems) = Len(a.elems)
         /\ \A i \in 1..Len(a.elems) : DerivedFrom(r.elems[i], a.elems[i], chain)
    ELSE \/ r = a
         \/ /\ IsCandidate(a)
            /\ \E c \in ReferenceCall(a, chain) : r = Annotated(a, c)

\* An object with an empty byte string that carries a decodedCall.
RECURSIVE HasAnnotatedEmpty(_)
HasAnnotatedEmpty(v) ==
    IF v.k = "array"
    THEN \E i \in 1..Len(v.elems) : HasAnnotatedEmpty(v.elems[i])
    ELSE /\ HasDecodedCall(v)
         /\ DataOf(v) = VStr(EmptyHex)

RECURSIVE HasEmptyCandidate(_)
HasEmptyCandidate(v) ==
    IF v.k = "array"
    THEN \E i \in 1..Len(v.elems) : HasEmptyCandidate(v.elems[i])
    ELSE /\ v.k = "object"
         /\ Truthy(TargetOf(v))
         /\ DataOf(v) = VStr(EmptyHex)

DecodedKeys == {k \in DOMAIN decodeCache : decodeCache[k].data.d = "decoded"}

----------------------------------------------------------------------------
(* C6 *)

\* C6: when the normalized callData is the empty marker, or normalization
\* failed, the decode stage yields no decoded call and is not under way,
\* and the interface resolver is never called for an empty byte string,
\* top-level or nested; no node with an empty byte string is annotated.
C6_EmptyShortCircuit ==
    /\ \A c \in resolverCalls : c.data # EmptyHex
    /\ (~parsedUserOp.ok \/ OpCallData.s = EmptyHex) =>
            /\ decodedCallData = NoData
            /\ DecodeKey \notin DOMAIN decodeRuns
            /\ DecodedSection.shows = "nothing"
    /\ \A k \in DecodedKeys :
            Truthy(decodeCache[k].data.args) =>
                ~HasAnnotatedEmpty(decodeCache[k].data.args)

\* The callData is the empty marker now, after a call with a nested
\* candidate of empty bytes was decoded.
C6_Witness ==
    /\ parsedUserOp.ok
    /\ OpCallData.s = EmptyHex
    /\ resolverCalls # {}
    /\ \E k \in DecodedKeys :
            /\ Truthy(decodeCache[k].data.args)
            /\ HasEmptyCandidate(decodeCache[k].data.args)

----------------------------------------------------------------------------
(* C7 *)

Execute01 == CallBytes(SelExecute, <<"0", "1">>)
Batch04   == CallBytes(SelExecuteBatch, <<"0", "4">>)

\* C7: whatever the order in which the sibling lookups complete, the
\* returned arguments are as many as the decoded ones and position i of the
\* result derives from position i of the input; with three siblings of
\* which only the second is a candidate, positions 1 and 3 are the original
\* values.
C7_CollectedByPosition ==
    \A k \in DecodedKeys :
        LET data == decodeCache[k].data
            ref  == ReferenceDecode(k)
        IN  /\ ref.ok
            /\ data.functionName = ref.functionName
            /\ IF Truthy(ref.args)
               THEN DerivedFrom(data.args, ref.args, k[3])
               ELSE data.args = VUndef
            /\ k[2].s = Execute01 =>
                    /\ Len(data.args.elems) = 3
                    /\ data.args.elems[1] = VBig(7)
                    /\ data.args.elems[3] = VStr(Addr3)
                    /\ data.args.elems[2] \in
                            {Call(Addr2, TransferData)} \cup
                            {Annotated(Call(Addr2, TransferData), c) :
                                c \in ReferenceCall(Call(Addr2, TransferData), 1)}

\* Two sibling candidates were both resolved, and each annotation sits at
\* its own position.
C7_Witness ==
    \E k \in DecodedKeys :
        /\ k[2].s = Batch04
        /\ LET elems == decodeCache[k].data.args.elems[1].elems
           IN  /\ HasDecodedCall(elems[1])
               /\ elems[1].fields["decodedCall"].functionName = "approve"
               /\ HasDecodedCall(elems[2])
               /\ elems[2].fields["decodedCall"].functionName = "transfer"

----------------------------------------------------------------------------
(* C8 *)

\* The values of an enrichArgs under way, a pending task shown as such.
RECURSIVE View(_)
View(work) ==
    IF work.st = "done" THEN work.val
    ELSE IF work.st = "pending" THEN [k |-> "pending", arg |-> work.arg]
    ELSE IF work.st = "all"
    THEN VArr([i \in 1..Len(work.items) |-> View(work.items[i])])
    ELSE [k |-> "rejected"]

\* What a candidate's task may return: the argument as it was, or the
\* argument annotated with what the try block made of some answer.
TaskResults(arg, chain) ==
    {arg} \cup {InnerAttempt(arg, o, chain).val :
                    o \in {x \in ResolverOutcomes : InnerAttempt(arg, x, chain).ok}}

\* From view v to view w, every settled value is kept and every pending
\* task is still pending or has returned one of its results.
RECURSIVE Advances(_, _, _)
Advances(v, w, chain) ==
    IF v.k = "pending"
    THEN w = v \/ w \in TaskResults(v.arg, chain)
    ELSE IF v.k = "array"
    THEN /\ w.k = "array"
         /\ Len(w.elems) = Len(v.elems)
         /\ \A i \in 1..Len(v.elems) : Advances(v.elems[i], w.elems[i], chain)
    ELSE w = v

\* C8: a failure inside the enrichment of one nested candidate never aborts
\* the parent decode: at every step of a decode that is enriching, the
\* decode goes on or returns the parent's function name with all its
\* arguments, every settled sibling kept as it was, and a task that has
\* returned has returned the plain argument or the annotated one.
C8_NestedFailureIsLocal ==
    [][\A k \in DOMAIN decodeRuns :
          decodeRuns[k].stage = "enriching" =>
              IF k \in DOMAIN decodeRuns'
              THEN /\ decodeRuns'[k].stage = "enriching"
                   /\ decodeRuns'[k].functionName = decodeRuns[k].functionName
                   /\ Advances(View(decodeRuns[k].work),
                               View(decodeRuns'[k].work), decodeRuns[k].chain)
              ELSE /\ k \in DOMAIN decodeCache'
                   /\ decodeCache'[k].data.d = "decoded"
                   /\ decodeCache'[k].data.functionName =
                          decodeRuns[k].functionName
                   /\ decodeCache'[k].data.inputs = decodeRuns[k].inputs
                   /\ Advances(View(decodeRuns[k].work),
                               decodeCache'[k].data.args, decodeRuns[k].chain)
      ]_vars

\* A decode has returned with one nested candidate left as it was, its
\* lookup having failed, and its sibling annotated.
C8_Witness ==
    \E k \in DecodedKeys :
        /\ k[2].s = Batch04
        /\ LET elems == decodeCache[k].data.args.elems[1].elems
           IN  /\ ~HasDecodedCall(elems[1])
               /\ HasDecodedCall(elems[2])

----------------------------------------------------------------------------
(* C10 *)

\* C10: the decoded call shown is always one computed from the current
\* sender, callData and chain: a result that arrives for a superseded
\* request is never presented for the current input.
C10_ShownCallIsCurrent ==
    DecodedSection.shows = "call" =>
        LET key  == DecodeKey
            call == DecodedSection.call
            ref  == ReferenceDecode(key)
        IN  /\ ref.ok
            /\ call.functionName = ref.functionName
            /\ call.inputs =
                   FindInputs(Registry(key[3], key[1].s), ref.functionName)
            /\ IF Truthy(ref.args)
               THEN DerivedFrom(call.args, ref.args, key[3])
               ELSE call.args = VUndef

\* The result of a superseded request has just arrived while the current
\* input shows a decoded call of its own.
C10_Witness ==
    /\ lateResult
    /\ DecodedSection.shows = "call"

----------------------------------------------------------------------------
(* C9 *)

\* A call of the query's oracle fails in this step.
FailsIn(q, qNext, k) ==
    /\ k \in Fetching(q)
    /\ qNext[k].failureCount > q[k].failureCount

Surfaced(qNext, k) ==
    /\ ~qNext[k].fetching
    /\ qNext[k].status = "error"

----------------------------------------------------------------------------
(* C11 *)

\* The rendering of a descriptor as the rule gives it: a tuple type, with
\* whatever array suffix, is the parenthesized list of its components, each
\* rendered and followed by its name if it has one, and then the suffix;
\* any other type is its name.
RECURSIVE Rendering(_)
Rendering(param) ==
    IF param.hasComponents /\ StartsWith(param.type, TupleType)
    THEN <<"(">> \o
         Join([i \in 1..Len(param.components) |->
                 Rendering(param.components[i]) \o
                 (IF param.components[i].name = <<>> THEN <<>>
                  ELSE <<" ">> \o param.components[i].name)])
         \o <<")">> \o SubSeq(param.type, Len(TupleType) + 1, Len(param.type))
    ELSE param.type

\* C11: formatAbiType renders a descriptor as its base type name, a tuple
\* as the parenthesized comma-joined list of its components' renderings
\* and names, in index order, and an array of tuples as that rendering
\* followed by its array suffix, at every nesting depth and for every
\* array-of-tuple shape.
C11_FormatAbiTypeRule ==
    formatted.fn = "formatAbiType" => formatted.res = Rendering(formatParam)

----------------------------------------------------------------------------
(* C12 *)

\* Every value of a decoded argument tree: the value, the elements of an
\* array, the fields of an object, the arguments of a decodedCall.
RECURSIVE Nodes(_)
Nodes(v) ==
    {v} \cup
    (CASE v.k = "array" ->
            UNION {Nodes(v.elems[i]) : i \in 1..Len(v.elems)}
       [] v.k = "object" ->
            UNION {Nodes(v.fields[f]) : f \in DOMAIN v.fields}
       [] v.k = "call" -> Nodes(v.args)
       [] OTHER -> {})

IsAnnotated(v) == HasDecodedCall(v) /\ v.fields["decodedCall"].k = "call"

\* C12: enrichment covers the whole decoded argument tree: in a decode
\* that has returned, every nested call candidate that resolves and
\* decodes, wherever it sits (in an array, in a tuple field, in the
\* arguments of an enriched nested call), carries a decodedCall made from
\* the interface of its own address; one that carries none is one whose
\* own lookup was made and failed.
C12_WholeTreeEnriched ==
    \A k \in DecodedKeys :
        Truthy(decodeCache[k].data.args) =>
            \A node \in Nodes(decodeCache[k].data.args) :
                IsCandidate(node) =>
                    IF IsAnnotated(node)
                    THEN node.fields["decodedCall"] \in ReferenceCall(node, k[3])
                    ELSE \/ ReferenceCall(node, k[3]) = {}
                         \/ ResolverCall(TargetOf(node).s, DataOf(node).s, k[3])
                                \in resolverCalls

----------------------------------------------------------------------------
(* C13 *)

\* r is a as enrichment may return it: an array position by position, a
\* candidate either unchanged or with all its fields as they were and the
\* one field decodedCall more, anything else unchanged.
RECURSIVE OnlyAdds(_, _)
OnlyAdds(r, a) ==
    IF a.k = "array"
    THEN /\ r.k = "array"
         /\ Len(r.elems) = Len(a.elems)
         /\ \A i \in 1..Len(a.elems) : OnlyAdds(r.elems[i], a.elems[i])
    ELSE \/ r = a
         \/ /\ IsCandidate(a)
            /\ r.k = "object"
            /\ "decodedCall" \notin DOMAIN a.fields
            /\ DOMAIN r.fields = DOMAIN a.fields \cup {"decodedCall"}
            /\ \A f \in DOMAIN a.fields : r.fields[f] = a.fields[f]

\* C13: enrichment only adds: in a decode that has returned, a decoded
\* candidate has every original field with its value unchanged and exactly
\* one field more, decodedCall; every other node is as it was decoded.
C13_OnlyAdds ==
    \A k \in DecodedKeys :
        Truthy(decodeCache[k].data.args) =>
            OnlyAdds(decodeCache[k].data.args, ReferenceDecode(k).args)

----------------------------------------------------------------------------
(* C14 *)

\* The inputs the interface declares for the function the data decodes
\* as: the function with the data's selector.
DeclaredInputs(abi, data) ==
    abi[Min({i \in 1..Len(abi) :
                abi[i].type = "function" /\
                abi[i].selector = SubSeq(data, 3, 10)})].inputs

ArgCount(args) == IF Truthy(args) THEN Len(args.elems) ELSE 0

\* The descriptors of a decoded call, if it carries any, are those declared
\* for its arguments, one for each.
Aligned(call, abi, data) ==
    call.inputs.defined =>
        /\ Len(call.inputs.params) = ArgCount(call.args)
        /\ call.inputs.params = DeclaredInputs(abi, data)

\* C14: in every decoded call returned, top-level or nested, that carries
\* parameter types, the descriptors are as many as the arguments and
\* descriptor i is the declared type of argument i, also when the
\* interface declares several functions of the decoded function's name.
C14_InputsAligned ==
    \A k \in DecodedKeys :
        /\ Aligned(decodeCache[k].data, Registry(k[3], k[1].s), k[2].s)
        /\ Truthy(decodeCache[k].data.args) =>
                \A node \in Nodes(decodeCache[k].data.args) :
                    IsCandidate(node) /\ IsAnnotated(node) =>
                        Aligned(node.fields["decodedCall"],
                                Registry(k[3], TargetOf(node).s),
                                DataOf(node).s)

----------------------------------------------------------------------------
(* C15 *)

\* Two characters that are one letter in either case, or the same.
SameLetter(a, b) ==
    \/ a = b
    \/ \E j \in 1..Len(UpperCase) :
            {a, b} \subseteq {UpperCase[j], LowerCase[j]}

EqualIgnoringCase(s, t) ==
    /\ Len(s) = Len(t)
    /\ \A i \in 1..Len(s) : SameLetter(s[i], t[i])

\* C15: the hash comparison is shown only when the expected hash is
\* non-empty after trimming and a computed hash is available; it reports a
\* match exactly when the trimmed expected hash and the computed hash are
\* equal up to the case of their letters; and while normalization has
\* failed there is no computed hash and no verdict.
C15_HashComparison ==
    /\ HashComparison.shown =>
            /\ Trim(expectedHash) # <<>>
            /\ computedHash.d = "hash"
            /\ HashComparison.verdict = "match" <=>
                    EqualIgnoringCase(Trim(expectedHash), computedHash.hash)
    /\ ~parsedUserOp.ok =>
            /\ computedHash = NoResult
            /\ ~HashComparison.shown
            /\ ~hashesMatch

\* A match is reported for an expected hash that differs from the computed
\* one by its surrounding blanks and the case of its letters.
C15_Witness ==
    /\ expectedHash = <<" ", "0", "x", "A", "B", " ">>
    /\ computedHash.d = "hash"
    /\ computedHash.hash = <<"0", "x", "A", "b">>
    /\ HashComparison.shown
    /\ HashComparison.verdict = "match"

=============================================================================
